---- MODULE Spec2Model ----
(***************************************************************************)
(* Model of analyze_landmarks.py: the incremental computation of the       *)
(* distance from every landmark to every country.  One run of main() loads *)
(* the new landmark list and the previous result file, reconciles them,    *)
(* hands the incomplete landmarks to a worker pool running                 *)
(* analyze_landmark, and rewrites the result file, which is the "previous  *)
(* result" of the next run.                                                *)
(*                                                                         *)
(* Geography is one-dimensional: every landmark sits on the equator, its   *)
(* longitude counted in steps of 0.05 degree, and a country is an interval *)
(* of the equator in metres.  On the equator the haversine formula is      *)
(* exactly R * |dlon|, so the distance test of reconcile_landmarks is      *)
(* computed without approximation.                                         *)
(***************************************************************************)
EXTENDS Integers, Sequences, FiniteSets, TLC

\* ------------------------------------------------------------------ bounds
MaxRuns == 2          \* consecutive runs of main() against one result file
MaxLandmarks == 2     \* rows of the landmark input of one run
MaxParallel == 2      \* largest --parallel value tried

\* ------------------------------------------------------- input universes
\* the <<address, longitude>> rows a landmark list is made of, longitude in
\* steps of 0.05 degree: landmark 1 is seen at 0, 0.05 and 0.2 degree,
\* landmark 2 at 0
Sites == {<<1, 0>>, <<1, 1>>, <<1, 4>>, <<2, 0>>}
\* the keys of the country tables a run may be given (ISO_A3 codes)
CcsChoices == {{"AAA"}, {"AAA", "BBB"}}
Resolutions == {10, 14}           \* --resolution, metres
Exts == {"gz", "csv"}             \* extension of the result file name
BASE_COLUMNS == {"addr", "longitude", "latitude", "name"}

\* ------------------------------------------------------- Python values
\* A value of a landmark dict or a CSV cell.  kind is the Python type; a str
\* remembers which literal it spells (lit) so that str() and the parsers are
\* conversions and not the identity.
PyNone == [kind |-> "None", lit |-> "", val |-> 0]
PyInt(n) == [kind |-> "int", lit |-> "", val |-> n]
PyFloat(n) == [kind |-> "float", lit |-> "", val |-> n]
PyIp(n) == [kind |-> "ip", lit |-> "", val |-> n]
PyStr(l, n) == [kind |-> "str", lit |-> l, val |-> n]
EmptyStr == PyStr("", 0)

\* csv.DictWriter: None is written as the empty field, a str as itself,
\* anything else as str(value).
CsvField(v) ==
    IF v.kind = "None" THEN EmptyStr
    ELSE IF v.kind = "str" THEN v
    ELSE PyStr(v.kind, v.val)

\* dict.get(k) with the default None
DictGet(d, k) == IF k \in DOMAIN d THEN d[k] ELSE PyNone

EMPTY_LM == [k \in {} |-> PyNone]

NoFile == [exists |-> FALSE, columns |-> <<>>, rows |-> <<>>]

Range(s) == {s[i] : i \in DOMAIN s}

\* ------------------------------------------------------- load_landmarks
\* One row of the CSV as load_landmarks keeps it: longitude and latitude
\* through float(), addr through ipaddress.ip_address(), every other column
\* as the string read.
ParseRow(row) ==
    [k \in DOMAIN row |->
        IF k = "longitude" \/ k = "latitude" THEN PyFloat(row[k].val)
        ELSE IF k = "addr" THEN PyIp(row[k].val)
        ELSE row[k]]

\* The table is kept as the sequence of its records in insertion order.
load_landmarks(file) == [i \in DOMAIN file.rows |-> ParseRow(file.rows[i])]

TableKeys(t) == {t[i]["addr"].val : i \in DOMAIN t}

\* old_landmarks.get(addr, EMPTY_LM)
TableGet(t, a) ==
    IF a \in TableKeys(t)
    THEN t[CHOOSE i \in DOMAIN t : t[i]["addr"].val = a]
    ELSE EMPTY_LM

\* ------------------------------------------------------- reconcile_landmarks
Abs(x) == IF x < 0 THEN -x ELSE x

MM_PER_STEP == 5559746        \* R1 * TO_RAD * 0.05 degree, in millimetres
TEN_KM == 10000000            \* the 10 km threshold, in millimetres

\* haversine distance between two points of the equator, in millimetres
Haversine(lon1, lat1, lon2, lat2) == Abs(lon1 - lon2) * MM_PER_STEP

not_same_location(lm, old_lm) ==
    LET n_lon == lm["longitude"].val
        n_lat == lm["latitude"].val
        o_lon == lm["longitude"].val
        o_lat == lm["latitude"].val
    IN  Haversine(n_lon, n_lat, o_lon, o_lat) > TEN_KM

\* bug: every landmark found in the old table counts as moved
OldFor_AlwaysMoved(lm, old_landmarks) == EMPTY_LM

\* the old record whose values the loop body copies for lm
OldFor(lm, old_landmarks) ==
    LET old_lm == TableGet(old_landmarks, lm["addr"].val)
    IN  IF not_same_location(lm, old_lm) THEN EMPTY_LM ELSE old_lm

\* bug: the old record is updated with the new one, so every field of the
\* old record that the new one lacks stays
ReconcileRecord_CarryAll(lm, old_landmarks, ccs) ==
    LET old_lm == OldFor(lm, old_landmarks)
    IN  [k \in DOMAIN lm \cup ccs \cup DOMAIN old_lm |->
            IF k \in ccs THEN DictGet(old_lm, k)
            ELSE IF k \in DOMAIN lm THEN lm[k]
            ELSE old_lm[k]]

\* the loop body for one new landmark: lm[iso] = old_lm.get(iso)
ReconcileRecord(lm, old_landmarks, ccs) ==
    LET old_lm == OldFor(lm, old_landmarks)
    IN  [k \in DOMAIN lm \cup ccs |->
            IF k \in ccs THEN DictGet(old_lm, k) ELSE lm[k]]

\* bug: a record is incomplete only when every country is unknown
GoesToIncomplete_All(lm, old_landmarks, ccs) ==
    \A iso \in ccs : DictGet(OldFor(lm, old_landmarks), iso) = PyNone

GoesToIncomplete(lm, old_landmarks, ccs) ==
    \E iso \in ccs : DictGet(OldFor(lm, old_landmarks), iso) = PyNone

RECURSIVE SelectSeq2(_, _, _)
SelectSeq2(s, keep, i) ==
    IF i > Len(s) THEN <<>>
    ELSE (IF keep[i] THEN <<s[i]>> ELSE <<>>) \o SelectSeq2(s, keep, i + 1)

\* bug: dest_list.append(lm) runs for the complete list as well
reconcile_landmarks_AppendBoth(old_landmarks, new_landmarks, ccs) ==
    LET recs == [i \in DOMAIN new_landmarks |->
                    ReconcileRecord(new_landmarks[i], old_landmarks, ccs)]
        inc == [i \in DOMAIN new_landmarks |->
                    GoesToIncomplete(new_landmarks[i], old_landmarks, ccs)]
    IN  [complete |-> recs,
         incomplete |-> SelectSeq2(recs, inc, 1),
         table |-> recs]

reconcile_landmarks(old_landmarks, new_landmarks, ccs) ==
    LET recs == [i \in DOMAIN new_landmarks |->
                    ReconcileRecord(new_landmarks[i], old_landmarks, ccs)]
        inc == [i \in DOMAIN new_landmarks |->
                    GoesToIncomplete(new_landmarks[i], old_landmarks, ccs)]
    IN  [complete |-> SelectSeq2(recs, [i \in DOMAIN inc |-> ~inc[i]], 1),
         incomplete |-> SelectSeq2(recs, inc, 1),
         table |-> recs]

\* ------------------------------------------------------- the map snapshot
M_PER_STEP == 5560            \* metres of equator per 0.05 degree of longitude

\* The merged land area of a country: an interval of the equator, in metres
\* east of longitude 0.
CountryShape(iso) ==
    IF iso = "AAA" THEN [lo |-> -50000, hi |-> 5553]
    ELSE [lo |-> 100000, hi |-> 150000]

\* what load_maps returns for the country table ccs: one geometry per code
load_maps(ccs) == [iso \in ccs |-> CountryShape(iso)]

\* sh_transform(to_aeqd, mapg): the shape in the azimuthal-equidistant
\* projection centred on the landmark, whose location becomes the origin
sh_transform(lm_lon, mapg) ==
    [lo |-> mapg.lo - lm_lon * M_PER_STEP, hi |-> mapg.hi - lm_lon * M_PER_STEP]

\* lm_ploc.distance(aeqd_mapg), lm_ploc = Point(0, 0)
distance(g) == IF g.lo > 0 THEN g.lo ELSE IF g.hi < 0 THEN -g.hi ELSE 0

\* lm_ploc.intersects(aeqd_mapg)
intersects(g) == g.lo <= 0 /\ 0 <= g.hi

\* bug: int(dist / resolution), truncation instead of rounding
round_Truncate(dist, resolution) == dist \div resolution

\* Python's round(dist / resolution): nearest integer, ties to the even one
round(dist, resolution) ==
    LET q == dist \div resolution
        r == dist % resolution
    IN  IF 2 * r < resolution THEN q
        ELSE IF 2 * r > resolution THEN q + 1
        ELSE IF q % 2 = 0 THEN q ELSE q + 1

\* Validity of the projected shape of country iso seen from longitude lon:
\*   "valid"     is_valid holds
\*   "repaired"  invalid, buffer(0) returns a valid shape
\*   "invalid"   invalid, buffer(0) returns a shape that is still invalid
\*   "raises"    invalid, buffer(0) raises
\* fault names the one (longitude, country) pair that is not "valid", if any.
Validity(fault, lon, iso) ==
    IF fault.mode # "valid" /\ fault.lon = lon /\ fault.iso = iso
    THEN fault.mode ELSE "valid"

\* lines 730-742: the value stored for one country
StoredDistance(aeqd_mapg, resolution) ==
    LET dist == round(distance(aeqd_mapg), resolution) * resolution
    IN  IF intersects(aeqd_mapg) THEN -dist ELSE dist

\* bug: "if landmark[iso]: continue", which takes '' and 0 for not computed
AnalyzeEntry_Truthy(landmark, iso, wd) ==
    IF landmark[iso] \notin {PyNone, EmptyStr, PyInt(0)} THEN landmark[iso]
    ELSE LET aeqd_mapg == sh_transform(landmark["longitude"].val, wd.maps[iso])
             v == Validity(wd.fault, landmark["longitude"].val, iso)
         IN  IF v \in {"invalid", "raises"} THEN PyNone
             ELSE PyInt(StoredDistance(aeqd_mapg, wd.resolution))

\* bug: the "is not None" test is missing, every country is computed again
AnalyzeEntry_Recompute(landmark, iso, wd) ==
    LET aeqd_mapg == sh_transform(landmark["longitude"].val, wd.maps[iso])
        v == Validity(wd.fault, landmark["longitude"].val, iso)
    IN  IF v \in {"invalid", "raises"} THEN PyNone
        ELSE PyInt(StoredDistance(aeqd_mapg, wd.resolution))

\* the body of the loop over maps.items() for one country
AnalyzeEntry(landmark, iso, wd) ==
    IF landmark[iso] # PyNone THEN landmark[iso]
    ELSE LET aeqd_mapg == sh_transform(landmark["longitude"].val, wd.maps[iso])
             v == Validity(wd.fault, landmark["longitude"].val, iso)
         IN  IF v \in {"invalid", "raises"} THEN PyNone
             ELSE PyInt(StoredDistance(aeqd_mapg, wd.resolution))

\* bug: a failed repair returns the landmark at once instead of going on with
\* the next country
analyze_landmark_AbortOnFault(landmark, wd) ==
    IF \E iso \in DOMAIN wd.maps :
            /\ landmark[iso] = PyNone
            /\ Validity(wd.fault, landmark["longitude"].val, iso)
                    \in {"invalid", "raises"}
    THEN landmark
    ELSE [k \in DOMAIN landmark |->
            IF k \in DOMAIN wd.maps THEN AnalyzeEntry(landmark, k, wd)
            ELSE landmark[k]]

\* wd is WORKER_DATA together with the behaviour of the geometry library
analyze_landmark(landmark, wd) ==
    [k \in DOMAIN landmark |->
        IF k \in DOMAIN wd.maps THEN AnalyzeEntry(landmark, k, wd)
        ELSE landmark[k]]

\* ------------------------------------------------------- rewrite_results
\* the keys that occur, in the order str comparison gives them
ALPHABETICAL ==
    <<"AAA", "BBB", "addr", "city", "latitude", "longitude", "name">>

\* sorted(keys)
RECURSIVE SortedFrom(_, _)
SortedFrom(keys, i) ==
    IF i > Len(ALPHABETICAL) THEN <<>>
    ELSE (IF ALPHABETICAL[i] \in keys THEN <<ALPHABETICAL[i]>> ELSE <<>>)
         \o SortedFrom(keys, i + 1)

\* bug: latitude is emitted before longitude
Columns_LatitudeFirst(expected_keys, ccs) ==
    LET dist_columns == {k \in expected_keys :
                            k \notin {"addr", "latitude", "longitude"} /\ k \in ccs}
        meta_columns == {k \in expected_keys :
                            k \notin {"addr", "latitude", "longitude"} /\ k \notin ccs}
    IN  <<"addr">> \o SortedFrom(meta_columns, 1) \o <<"latitude", "longitude">>
        \o SortedFrom(dist_columns, 1)

Columns(expected_keys, ccs) ==
    LET dist_columns == {k \in expected_keys :
                            k \notin {"addr", "latitude", "longitude"} /\ k \in ccs}
        meta_columns == {k \in expected_keys :
                            k \notin {"addr", "latitude", "longitude"} /\ k \notin ccs}
    IN  <<"addr">> \o SortedFrom(meta_columns, 1) \o <<"longitude", "latitude">>
        \o SortedFrom(dist_columns, 1)

\* bug: the records are written in the order they came in
SortByAddr_AsCollected(results) == results

\* results.sort(key=lambda row: row["addr"])
RECURSIVE SortByAddr(_)
SortByAddr(results) ==
    IF results = <<>> THEN <<>>
    ELSE LET m == CHOOSE i \in DOMAIN results :
                    \A j \in DOMAIN results :
                        \/ results[i]["addr"].val < results[j]["addr"].val
                        \/ (results[i]["addr"].val = results[j]["addr"].val /\ i <= j)
             rest == [j \in 1..(Len(results) - 1) |->
                        IF j < m THEN results[j] ELSE results[j + 1]]
         IN  <<results[m]>> \o SortByAddr(rest)

\* the rows csv.DictWriter writes
CsvRows(results, columns) ==
    [i \in DOMAIN results |-> [k \in Range(columns) |-> CsvField(results[i][k])]]

\* bug: a record that only lacks keys is let through
KeysConsistent_SubsetOnly(results) ==
    \A i \in DOMAIN results : DOMAIN results[i] \subseteq DOMAIN results[1]

\* "ok" when every record has the key set of the first one
KeysConsistent(results) ==
    \A i \in DOMAIN results : DOMAIN results[i] = DOMAIN results[1]

\* open_with_auto_compression(tfp, mode, ext=ext) accepts the temporary file
\* object only on the compression branches; the final branch asserts that
\* name is a str or an int
OpensTempFile(ext) == ext \in {"gz", "bz2", "xz", "lzma"}

\* the file rewrite_results leaves behind when nothing fails
WrittenFile(results, ccs) ==
    LET columns == Columns(DOMAIN results[1], ccs)
    IN  [exists |-> TRUE, columns |-> columns,
         rows |-> CsvRows(SortByAddr(results), columns)]

\* ------------------------------------------------------- load_maps in full
\* load_maps on any merge rules, country table and map file.  A geographic
\* unit is its GU_A3 code, its SOV_A3 code and whether its shape is valid; a
\* merged geometry is the set of the units in it.
MaxRules == 2

MaxFeatures == 2

RuleCodes == {"AAA", "BBB", "XXX"}

\* ZZZ is a unit no map file has
RuleUnits == {<<"A1">>, <<"ZZZ">>, <<"A1", "ZZZ">>}

RuleFiles ==
    {r \in UNION {[1..n -> [iso : RuleCodes, gus : RuleUnits]] : n \in 0..MaxRules} :
        \A i, j \in DOMAIN r : i # j => r[i].iso # r[j].iso}

Features ==
    {[gu |-> "A1", sov |-> "AAA", valid |-> TRUE],
     [gu |-> "A1", sov |-> "AAA", valid |-> FALSE],
     [gu |-> "A1", sov |-> "BBB", valid |-> TRUE],
     [gu |-> "A2", sov |-> "AAA", valid |-> TRUE],
     [gu |-> "B1", sov |-> "BBB", valid |-> TRUE]}

MapFiles == UNION {[1..n -> Features] : n \in 0..MaxFeatures}

\* what unary_union gives for AAA: a valid shape, one buffer(0) repairs,
\* or one it does not repair
UnionFaults == {"valid", "repairable", "invalid"}

MapInputs ==
    [rules : RuleFiles, ccs : CcsChoices, features : MapFiles, union : UnionFaults]

Err(kind, what) == [kind |-> kind, what |-> what]

RuleIsos(rules) == {rules[i].iso : i \in DOMAIN rules}

\* lines 401-406: rules for codes the country table does not have
RECURSIVE CheckRules(_, _, _)
CheckRules(rules, ccs, i) ==
    IF i > Len(rules) THEN <<>>
    ELSE (IF rules[i].iso \notin ccs
          THEN <<Err("unknown ISO_A3 code", rules[i].iso)>> ELSE <<>>)
         \o CheckRules(rules, ccs, i + 1)

\* bug: every unit starts a rule of its own
AddRule_NewEntry(add_rules, iso, gu) ==
    Append(add_rules, [iso |-> iso, gus |-> <<gu>>])

\* add_rules[SOV_A3].append(GU_A3) on a defaultdict(list)
AddRule(add_rules, iso, gu) ==
    IF \E i \in DOMAIN add_rules : add_rules[i].iso = iso
    THEN [i \in DOMAIN add_rules |->
            IF add_rules[i].iso = iso
            THEN [iso |-> iso, gus |-> Append(add_rules[i].gus, gu)]
            ELSE add_rules[i]]
    ELSE Append(add_rules, [iso |-> iso, gus |-> <<gu>>])

\* lines 415-434: the loop over the features of the map file
RECURSIVE ReadFeatures(_, _, _, _, _)
ReadFeatures(features, rules, ccs, i, st) ==
    IF i > Len(features) THEN st
    ELSE LET f == features[i]
         IN  IF f.gu \in DOMAIN st.all_gus
             THEN ReadFeatures(features, rules, ccs, i + 1,
                    [st EXCEPT !.errors = Append(@, Err("duplicate GU_A3 code", f.gu))])
             ELSE ReadFeatures(features, rules, ccs, i + 1,
                    [all_gus |-> [g \in DOMAIN st.all_gus \cup {f.gu} |->
                                    IF g = f.gu THEN f ELSE st.all_gus[g]],
                     add_rules |-> IF f.sov \in ccs /\ f.sov \notin RuleIsos(rules)
                                   THEN AddRule(st.add_rules, f.sov, f.gu)
                                   ELSE st.add_rules,
                     errors |-> st.errors])

\* lines 444-451: countries of the table left without a rule
CheckCoverage(rules, ccs) ==
    LET uncovered == SortedFrom(ccs \ RuleIsos(rules), 1)
    IN  [i \in DOMAIN uncovered |-> Err("no features for ISO_A3 code", uncovered[i])]

\* the (country, unit) pairs in the order the two loops at 456-457 visit them
RECURSIVE FlatUnits(_, _)
FlatUnits(rules, i) ==
    IF i > Len(rules) THEN <<>>
    ELSE [j \in DOMAIN rules[i].gus |-> [iso |-> rules[i].iso, gu |-> rules[i].gus[j]]]
         \o FlatUnits(rules, i + 1)

\* lines 455-477.  geo is the local variable of that name: empty until the
\* first successful pop, and after a KeyError still what the last successful
\* pop left in it, because the handler does not leave the iteration.
RECURSIVE GroupUnits(_, _, _)
GroupUnits(units, i, st) ==
    IF i > Len(units) THEN st
    ELSE LET u == units[i]
             st1 == IF u.gu \in DOMAIN st.all_gus
                    THEN [st EXCEPT !.geo = <<st.all_gus[u.gu]>>,
                                    !.all_gus = [g \in DOMAIN st.all_gus \ {u.gu} |->
                                                    st.all_gus[g]]]
                    ELSE [st EXCEPT !.errors = Append(@, Err("GU not found in map", u.gu))]
         IN  IF st1.geo = <<>>
             THEN [st1 EXCEPT !.outcome = "UnboundLocalError"]
             ELSE IF st1.geo[1].valid
             THEN GroupUnits(units, i + 1,
                    [st1 EXCEPT !.grouped = Append(@, [iso |-> u.iso, gu |-> st1.geo[1].gu])])
             ELSE GroupUnits(units, i + 1,
                    [st1 EXCEPT !.errors = Append(@, Err("GU is invalid", u.gu))])

UnionValidity(iso, union) == IF iso = "AAA" THEN union ELSE "valid"

NoMaps == [iso \in {} |-> {}]

NoUnits == [g \in {} |-> [gu |-> "", sov |-> "", valid |-> TRUE]]

\* lines 392-501; rules is the caller's dict as lines 440-442 leave it.
\* An invalid union reaches "if not sh.is_valid():" at 488,
\* which calls the bool is_valid and raises TypeError, repaired or not.
load_maps_from(rules, ccs, features, union) ==
    LET rd == ReadFeatures(features, rules, ccs, 1,
                [all_gus |-> NoUnits, add_rules |-> <<>>,
                 errors |-> CheckRules(rules, ccs, 1)])
        all_rules == rules \o rd.add_rules
        gr == GroupUnits(FlatUnits(all_rules, 1), 1,
                [all_gus |-> rd.all_gus, geo |-> <<>>, grouped |-> <<>>,
                 errors |-> rd.errors \o CheckCoverage(all_rules, ccs),
                 outcome |-> "running"])
    IN  IF gr.outcome = "UnboundLocalError"
        THEN [outcome |-> "UnboundLocalError", errors |-> gr.errors, maps |-> NoMaps,
              rules |-> all_rules]
        ELSE IF gr.errors # <<>>
        THEN [outcome |-> "SystemExit", errors |-> gr.errors, maps |-> NoMaps,
              rules |-> all_rules]
        ELSE IF \E iso \in RuleIsos(all_rules) : UnionValidity(iso, union) # "valid"
        THEN [outcome |-> "TypeError", errors |-> <<>>, maps |-> NoMaps,
              rules |-> all_rules]
        ELSE [outcome |-> "returned", errors |-> <<>>,
              maps |-> [iso \in RuleIsos(all_rules) |->
                          {x.gu : x \in {y \in Range(gr.grouped) : y.iso = iso}}],
              rules |-> all_rules]

\* ------------------------------------------------------- load_country_codes
MaxRows == 2

\* A cell of the country table: the text it holds once trimmed and put in
\* upper case, whether it is written with blanks around it, and whether it
\* is written in lower case.
Cell(t, p, l) == [text |-> t, padded |-> p, lower |-> l]

\* str.strip()
strip(s) == [s EXCEPT !.padded = FALSE]

\* bug: the codes are compared as written
upper_AsWritten(s) == s

\* str.upper()
upper(s) == [s EXCEPT !.lower = FALSE]

A3Cells == {Cell("AAA", FALSE, FALSE), Cell("AAA", TRUE, TRUE), Cell("BBB", FALSE, FALSE)}

A2Cells == {Cell("AA", FALSE, FALSE), Cell("AA", FALSE, TRUE), Cell("BB", FALSE, FALSE)}

NameCells ==
    {Cell("ALAND", FALSE, FALSE), Cell("ALAND", TRUE, FALSE),
     Cell("ALAND", FALSE, TRUE), Cell("BLAND", FALSE, FALSE)}

Headers ==
    {<<"ISO_A2", "ISO_A3", "NAME">>, <<"NAME", "ISO_A3", "ISO_A2">>,
     <<"ISO_A3", "NAME">>, <<"ISO_A2", "ISO_A3", "NAME", "POP">>}

CountryFiles ==
    [fieldnames : Headers,
     rows : UNION {[1..n -> [ISO_A3 : A3Cells, ISO_A2 : A2Cells, NAME : NameCells]] :
                    n \in 0..MaxRows}]

NoCountries == [c \in {} |-> [ISO_A3 |-> c, ISO_A2 |-> c, NAME |-> c]]

\* lines 275-302: the loop over the rows
RECURSIVE ReadCountryRows(_, _, _)
ReadCountryRows(rows, i, st) ==
    IF i > Len(rows) THEN st
    ELSE LET ISO_A3 == upper(strip(rows[i].ISO_A3))
             ISO_A2 == upper(strip(rows[i].ISO_A2))
             NAME == strip(rows[i].NAME)
         IN  ReadCountryRows(rows, i + 1,
                [rv |-> IF ISO_A3 \in DOMAIN st.rv THEN st.rv
                        ELSE [c \in DOMAIN st.rv \cup {ISO_A3} |->
                                IF c = ISO_A3
                                THEN [ISO_A3 |-> ISO_A3, ISO_A2 |-> ISO_A2, NAME |-> NAME]
                                ELSE st.rv[c]],
                 dupe_A2 |-> st.dupe_A2 \cup {ISO_A2},
                 dupe_NM |-> st.dupe_NM \cup {NAME},
                 errors |-> st.errors
                    \o (IF NAME \in st.dupe_NM
                        THEN <<Err("duplicate name", NAME)>> ELSE <<>>)
                    \o (IF ISO_A2 \in st.dupe_A2
                        THEN <<Err("duplicate ISO_A2 code", ISO_A2)>> ELSE <<>>)
                    \o (IF ISO_A3 \in DOMAIN st.rv
                        THEN <<Err("duplicate ISO_A3 code", ISO_A3)>> ELSE <<>>)])

\* lines 262-306
load_country_codes(ccs_file) ==
    IF ~(/\ Len(ccs_file.fieldnames) = 3
         /\ Range(ccs_file.fieldnames) = {"ISO_A2", "ISO_A3", "NAME"})
    THEN [outcome |-> "SystemExit: wrong set of fields", errors |-> <<>>,
          rv |-> NoCountries]
    ELSE LET st == ReadCountryRows(ccs_file.rows, 1,
                    [rv |-> NoCountries, dupe_A2 |-> {}, dupe_NM |-> {},
                     errors |-> <<>>])
         IN  IF st.errors # <<>>
             THEN [outcome |-> "SystemExit", errors |-> st.errors, rv |-> NoCountries]
             ELSE [outcome |-> "returned", errors |-> <<>>, rv |-> st.rv]

\* ------------------------------------------------------- the inputs of a run
LandmarkRow(a, lon) ==
    [k \in BASE_COLUMNS |->
        IF k = "addr" THEN PyStr("ip", a)
        ELSE IF k = "longitude" THEN PyStr("float", lon)
        ELSE IF k = "latitude" THEN PyStr("float", 0)
        ELSE PyStr("text", a)]

\* the landmark CSV files: up to MaxLandmarks rows, no address twice
LandmarkFiles ==
    {[exists |-> TRUE,
      columns |-> <<"addr", "name", "longitude", "latitude">>,
      rows |-> [i \in DOMAIN s |-> LandmarkRow(s[i][1], s[i][2])]] :
        s \in {t \in UNION {[1..n -> Sites] : n \in 0..MaxLandmarks} :
                \A i, j \in DOMAIN t : t[i][1] = t[j][1] => i = j}}

\* the (longitude, country) pairs whose projection may come out invalid
FaultPairs == {<<0, "BBB">>, <<4, "AAA">>}

Faults ==
    {[mode |-> "valid", lon |-> 0, iso |-> "AAA"]}
    \cup {[mode |-> m, lon |-> p[1], iso |-> p[2]] :
            m \in {"repaired", "invalid", "raises"}, p \in FaultPairs}

NoWorkerData == [maps |-> [iso \in {} |-> CountryShape(iso)],
                 resolution |-> 0,
                 fault |-> [mode |-> "valid", lon |-> 0, iso |-> "AAA"]]

\* ------------------------------------------------------- state
VARIABLES
    run,            \* runs of main() started so far
    pc,             \* where main() is
    resolution,     \* args.resolution
    parallel,       \* args.parallel
    ext,            \* extension of args.results
    fault,          \* behaviour of the geometry library (see Validity)
    ccs,            \* keys of the country table of this run
    landmarksFile,  \* args.landmarks
    resultsFile,    \* args.results
    old_landmarks,  \* load_landmarks(args.results)
    new_landmarks,  \* load_landmarks(args.landmarks), after reconciliation
    lm_complete,
    lm_incomplete,
    WORKER_DATA,
    dispatched,     \* indices of lm_incomplete handed to a worker so far
    inflight,       \* indices a worker is computing
    crashed,        \* the exception that ended the run, "" if none; of a
                    \* killed run, the place where it was killed
    tmp,            \* the NamedTemporaryFile of atomic_rewrite in this run
    xlink,          \* its hard link xname = tfp.name + "."
    synced,         \* tmp has been flushed and fsync'ed
    resultsBefore,  \* args.results as it was when the run started
    exitMsg,        \* the message of rewrite_results' SystemExit
    cfgIn,          \* the configuration files handed to a loader
    cfgOut          \* what the loader did with them

vars == <<run, pc, resolution, parallel, ext, fault, ccs, landmarksFile,
          resultsFile, old_landmarks, new_landmarks, lm_complete,
          lm_incomplete, WORKER_DATA, dispatched, inflight, crashed,
          tmp, xlink, synced, resultsBefore, exitMsg, cfgIn, cfgOut>>

\* the files atomic_rewrite works on besides the destination
tmpVars == <<tmp, xlink, synced>>

cfgVars == <<cfgIn, cfgOut>>

NoMsg == [addr |-> 0, extra |-> {}, missing |-> {}]

args == <<resolution, parallel, ext, fault>>

Init ==
    /\ run = 0
    /\ pc = "idle"
    /\ resolution \in Resolutions
    /\ parallel \in 1..MaxParallel
    /\ ext \in Exts
    /\ fault \in Faults
    /\ ccs = {}
    /\ landmarksFile = NoFile
    /\ resultsFile = NoFile
    /\ old_landmarks = <<>>
    /\ new_landmarks = <<>>
    /\ lm_complete = <<>>
    /\ lm_incomplete = <<>>
    /\ WORKER_DATA = NoWorkerData
    /\ dispatched = 0
    /\ inflight = {}
    /\ crashed = ""
    /\ tmp = NoFile
    /\ xlink = NoFile
    /\ synced = FALSE
    /\ resultsBefore = NoFile
    /\ exitMsg = NoMsg
    /\ cfgIn = <<>>
    /\ cfgOut = <<>>

\* main(), lines 820-841: load the configuration and the landmarks, then
\* reconcile.  A missing result file is an empty old table.
StartRun ==
    /\ pc \in {"idle", "done", "returned", "crashed"}
    /\ run < MaxRuns
    /\ run' = run + 1
    /\ \E c \in CcsChoices, f \in LandmarkFiles :
        LET new == load_landmarks(f)
            old == IF resultsFile.exists THEN load_landmarks(resultsFile) ELSE <<>>
            r == reconcile_landmarks(old, new, c)
        IN  /\ ccs' = c
            /\ landmarksFile' = f
            /\ old_landmarks' = old
            /\ new_landmarks' = r.table
            /\ lm_complete' = r.complete
            /\ lm_incomplete' = r.incomplete
    /\ pc' = "reconciled"
    /\ WORKER_DATA' = NoWorkerData
    /\ dispatched' = 0
    /\ inflight' = {}
    /\ crashed' = ""
    /\ tmp' = NoFile
    /\ xlink' = NoFile
    /\ synced' = FALSE
    /\ resultsBefore' = resultsFile
    /\ exitMsg' = NoMsg
    /\ UNCHANGED <<args, resultsFile, cfgVars>>

\* lines 843-852: there is work, load the maps and publish WORKER_DATA
LoadMaps ==
    /\ pc = "reconciled"
    /\ lm_incomplete # <<>>
    /\ WORKER_DATA' = [maps |-> load_maps(ccs), resolution |-> resolution,
                       fault |-> fault]
    /\ pc' = "pool"
    /\ UNCHANGED <<run, args, ccs, landmarksFile, resultsFile, old_landmarks,
                   new_landmarks, lm_complete, lm_incomplete, dispatched,
                   inflight, crashed,
                   tmpVars, resultsBefore, exitMsg, cfgVars>>

\* bug: the file is rewritten even when nothing changed
NoAnalysis_AlwaysRewrite ==
    /\ pc = "reconciled"
    /\ lm_incomplete = <<>>
    /\ pc' = "rewrite"
    /\ UNCHANGED <<run, args, ccs, landmarksFile, resultsFile, old_landmarks,
                   new_landmarks, lm_complete, lm_incomplete, WORKER_DATA,
                   dispatched, inflight, crashed,
                   tmpVars, resultsBefore, exitMsg, cfgVars>>

\* lines 871-875: nothing to analyze; return when the address sets agree
NoAnalysis ==
    /\ pc = "reconciled"
    /\ lm_incomplete = <<>>
    /\ pc' = IF TableKeys(old_landmarks) = TableKeys(new_landmarks)
             THEN "returned" ELSE "rewrite"
    /\ UNCHANGED <<run, args, ccs, landmarksFile, resultsFile, old_landmarks,
                   new_landmarks, lm_complete, lm_incomplete, WORKER_DATA,
                   dispatched, inflight, crashed,
                   tmpVars, resultsBefore, exitMsg, cfgVars>>

\* imap_unordered, chunksize=1: an idle worker takes the next landmark
Dispatch ==
    /\ pc = "pool"
    /\ dispatched < Len(lm_incomplete)
    /\ Cardinality(inflight) < parallel
    /\ dispatched' = dispatched + 1
    /\ inflight' = inflight \cup {dispatched + 1}
    /\ UNCHANGED <<run, pc, args, ccs, landmarksFile, resultsFile,
                   old_landmarks, new_landmarks, lm_complete, lm_incomplete,
                   WORKER_DATA, crashed,
                   tmpVars, resultsBefore, exitMsg, cfgVars>>

\* bug: the worker projects the shared maps in place
Complete_ProjectInPlace(i) ==
    /\ pc = "pool"
    /\ i \in inflight
    /\ inflight' = inflight \ {i}
    /\ lm_complete' = Append(lm_complete,
                             analyze_landmark(lm_incomplete[i], WORKER_DATA))
    /\ WORKER_DATA' = [WORKER_DATA EXCEPT !.maps =
            [iso \in DOMAIN WORKER_DATA.maps |->
                sh_transform(lm_incomplete[i]["longitude"].val, WORKER_DATA.maps[iso])]]
    /\ UNCHANGED <<run, pc, args, ccs, landmarksFile, resultsFile,
                   old_landmarks, new_landmarks, lm_incomplete,
                   dispatched, crashed,
                   tmpVars, resultsBefore, exitMsg, cfgVars>>

\* a worker returns analyze_landmark(lm_incomplete[i]); line 862 appends it
Complete(i) ==
    /\ pc = "pool"
    /\ i \in inflight
    /\ inflight' = inflight \ {i}
    /\ lm_complete' = Append(lm_complete,
                             analyze_landmark(lm_incomplete[i], WORKER_DATA))
    /\ UNCHANGED <<run, pc, args, ccs, landmarksFile, resultsFile,
                   old_landmarks, new_landmarks, lm_incomplete, WORKER_DATA,
                   dispatched, crashed,
                   tmpVars, resultsBefore, exitMsg, cfgVars>>

\* bug: the collecting loop ends when everything is dispatched, results of
\* busy workers are lost
PoolDone_Early ==
    /\ pc = "pool"
    /\ dispatched = Len(lm_incomplete)
    /\ pc' = "rewrite"
    /\ UNCHANGED <<run, args, ccs, landmarksFile, resultsFile, old_landmarks,
                   new_landmarks, lm_complete, lm_incomplete, WORKER_DATA,
                   dispatched, inflight, crashed,
                   tmpVars, resultsBefore, exitMsg, cfgVars>>

\* line 870: every result has been collected
PoolDone ==
    /\ pc = "pool"
    /\ dispatched = Len(lm_incomplete)
    /\ inflight = {}
    /\ pc' = "rewrite"
    /\ UNCHANGED <<run, args, ccs, landmarksFile, resultsFile, old_landmarks,
                   new_landmarks, lm_complete, lm_incomplete, WORKER_DATA,
                   dispatched, inflight, crashed,
                   tmpVars, resultsBefore, exitMsg, cfgVars>>

\* lines 611-621: the SystemExit message for the first record whose key set
\* is not the first record's
BadRecordMsg(results) ==
    LET expected_keys == DOMAIN results[1]
        bad == {i \in DOMAIN results : DOMAIN results[i] # expected_keys}
        row == results[CHOOSE i \in bad : \A j \in bad : i <= j]
    IN  [addr |-> row["addr"].val,
         extra |-> DOMAIN row \ expected_keys,
         missing |-> expected_keys \ DOMAIN row]

\* lines 877-880 and 606-648: main checks the count and calls
\* rewrite_results, which checks the key sets and sorts the records in place
RewriteResults ==
    /\ pc = "rewrite"
    /\ IF Len(lm_complete) # Len(new_landmarks)
       THEN /\ pc' = "crashed" /\ crashed' = "AssertionError: len(lm_complete)"
            /\ UNCHANGED <<lm_complete, exitMsg>>
       ELSE IF lm_complete = <<>>
       THEN /\ pc' = "crashed" /\ crashed' = "IndexError"
            /\ UNCHANGED <<lm_complete, exitMsg>>
       ELSE IF ~KeysConsistent(lm_complete)
       THEN /\ pc' = "crashed" /\ crashed' = "SystemExit"
            /\ exitMsg' = BadRecordMsg(lm_complete)
            /\ UNCHANGED lm_complete
       ELSE /\ pc' = "atomic_rewrite" /\ crashed' = ""
            /\ lm_complete' = SortByAddr(lm_complete)
            /\ UNCHANGED exitMsg
    /\ UNCHANGED <<run, args, ccs, landmarksFile, resultsFile, old_landmarks,
                   new_landmarks, lm_incomplete, WORKER_DATA, dispatched,
                   inflight, tmpVars, resultsBefore, cfgVars>>

\* what no step of atomic_rewrite touches
writerFrame == <<run, args, ccs, landmarksFile, old_landmarks, new_landmarks,
                 lm_complete, lm_incomplete, WORKER_DATA, dispatched, inflight,
                 resultsBefore, exitMsg, cfgVars>>

\* bug: the destination itself is opened for writing
CreateTemp_InPlace ==
    /\ pc = "atomic_rewrite"
    /\ pc' = "writing"
    /\ tmp' = [exists |-> TRUE, columns |-> <<>>, rows |-> <<>>]
    /\ resultsFile' = [exists |-> TRUE, columns |-> <<>>, rows |-> <<>>]
    /\ UNCHANGED <<crashed, xlink, synced, writerFrame>>

\* lines 191-199: the temporary file is created next to the destination and
\* handed to open_with_auto_compression; when that raises, the
\* NamedTemporaryFile block deletes the file again
CreateTemp ==
    /\ pc = "atomic_rewrite"
    /\ IF OpensTempFile(ext)
       THEN /\ pc' = "writing"
            /\ tmp' = [exists |-> TRUE, columns |-> <<>>, rows |-> <<>>]
            /\ UNCHANGED crashed
       ELSE /\ pc' = "crashed"
            /\ crashed' = "AssertionError: isinstance(name, str)"
            /\ UNCHANGED tmp
    /\ UNCHANGED <<resultsFile, xlink, synced, writerFrame>>

\* line 654: wr.writeheader()
WriteHeader ==
    /\ pc = "writing"
    /\ tmp.columns = <<>>
    /\ tmp' = [tmp EXCEPT !.columns = Columns(DOMAIN lm_complete[1], ccs)]
    /\ UNCHANGED <<pc, crashed, resultsFile, xlink, synced, writerFrame>>

\* lines 655-656: wr.writerow(row) for the next record
WriteRow ==
    /\ pc = "writing"
    /\ tmp.columns # <<>>
    /\ Len(tmp.rows) < Len(lm_complete)
    /\ tmp' = [tmp EXCEPT !.rows =
                Append(@, CsvRows(lm_complete, tmp.columns)[Len(@) + 1])]
    /\ UNCHANGED <<pc, crashed, resultsFile, xlink, synced, writerFrame>>

\* lines 201-204: the with body is over; flush, close the compressor, fsync
FlushSync ==
    /\ pc = "writing"
    /\ tmp.columns # <<>>
    /\ Len(tmp.rows) = Len(lm_complete)
    /\ synced' = TRUE
    /\ pc' = "synced"
    /\ UNCHANGED <<crashed, resultsFile, tmp, xlink, writerFrame>>

\* lines 215-216: os.link(tfp.name, xname)
Link ==
    /\ pc = "synced"
    /\ xlink' = tmp
    /\ pc' = "linked"
    /\ UNCHANGED <<crashed, resultsFile, tmp, synced, writerFrame>>

\* line 217: os.replace(xname, name)
Replace ==
    /\ pc = "linked"
    /\ resultsFile' = xlink
    /\ xlink' = NoFile
    /\ pc' = "replaced"
    /\ UNCHANGED <<crashed, tmp, synced, writerFrame>>

\* the NamedTemporaryFile block ends and deletes the temporary name;
\* rewrite_results returns, line 882
CloseTemp ==
    /\ pc = "replaced"
    /\ tmp' = NoFile
    /\ pc' = "done"
    /\ UNCHANGED <<crashed, resultsFile, xlink, synced, writerFrame>>

\* An OSError while the temporary file is created, while rows are written or
\* flushed, in os.link or in os.replace.  It leaves through the
\* NamedTemporaryFile block, which deletes the temporary name, and ends the
\* run; nothing removes xname.
IOError ==
    /\ pc \in {"atomic_rewrite", "writing", "synced", "linked"}
    /\ tmp' = NoFile
    /\ pc' = "crashed"
    /\ crashed' = "OSError"
    /\ UNCHANGED <<resultsFile, xlink, synced, writerFrame>>

\* where main can be when the process is killed: loading the maps, in the
\* pool, before rewrite_results, or at a step of atomic_rewrite
RunningPcs == {"reconciled", "pool", "rewrite", "atomic_rewrite", "writing",
               "synced", "linked", "replaced"}

\* the process is killed: nothing is cleaned up
Interrupt ==
    /\ pc \in RunningPcs
    /\ pc' = "killed"
    /\ crashed' = pc
    /\ UNCHANGED <<resultsFile, tmpVars, writerFrame>>

Next ==
    \/ StartRun
    \/ LoadMaps
    \/ NoAnalysis
    \/ Dispatch
    \/ \E i \in 1..MaxLandmarks : Complete(i)
    \/ PoolDone
    \/ RewriteResults
    \/ CreateTemp
    \/ WriteHeader
    \/ WriteRow
    \/ FlushSync
    \/ Link
    \/ Replace
    \/ CloseTemp
    \/ IOError
    \/ Interrupt

Spec == Init /\ [][Next]_vars

\* ------------------------------------------------------- the claims
\* the new table as loaded, before reconcile_landmarks adds the country keys
NewLoaded == load_landmarks(landmarksFile)

\* the records reconcile_landmarks returned, complete list first
Reconciled == lm_complete \o lm_incomplete

\* great-circle distance between the old and the new location of a landmark
Moved(lm, old_lm) ==
    Haversine(old_lm["longitude"].val, old_lm["latitude"].val,
              lm["longitude"].val, lm["latitude"].val)

InBoth(lm) == lm["addr"].val \in TableKeys(old_landmarks)

OldOf(lm) == TableGet(old_landmarks, lm["addr"].val)

\* a cell of the old table that holds a distance
HoldsDistance(old_lm, iso) ==
    iso \in DOMAIN old_lm /\ old_lm[iso].kind = "str" /\ old_lm[iso].lit = "int"

\* C1: a landmark found in the old table more than 10 km from its new
\* location gets every required country unknown and goes to the incomplete
\* list.
C1_MovedDiscarded ==
    pc = "reconciled" =>
        \A i \in DOMAIN Reconciled :
            LET lm == Reconciled[i]
            IN  (InBoth(lm) /\ Moved(lm, OldOf(lm)) > TEN_KM) =>
                    /\ \A iso \in ccs : lm[iso] = PyNone
                    /\ i > Len(lm_complete)

\* C2: a landmark found in the old table at most 10 km from its new location
\* keeps, unchanged, every distance the old record holds for a required
\* country.
C2_UnmovedCarried ==
    pc = "reconciled" =>
        \A i \in DOMAIN Reconciled :
            LET lm == Reconciled[i]
            IN  (InBoth(lm) /\ Moved(lm, OldOf(lm)) <= TEN_KM) =>
                    \A iso \in ccs :
                        HoldsDistance(OldOf(lm), iso) => lm[iso] = OldOf(lm)[iso]

\* a landmark that shifted by less than 10 km and whose old record holds a
\* distance has been reconciled
C2_Witness ==
    /\ pc = "reconciled"
    /\ \E i \in DOMAIN Reconciled :
        LET lm == Reconciled[i]
        IN  /\ InBoth(lm)
            /\ Moved(lm, OldOf(lm)) <= TEN_KM
            /\ Moved(lm, OldOf(lm)) > 0
            /\ \E iso \in ccs : HoldsDistance(OldOf(lm), iso)

\* C3: the two lists together hold exactly one record per address of the new
\* table and nothing else.
C3_Partition ==
    pc = "reconciled" =>
        /\ Len(lm_complete) + Len(lm_incomplete) = Len(NewLoaded)
        /\ \A a \in TableKeys(NewLoaded) :
            Cardinality({i \in DOMAIN Reconciled : Reconciled[i]["addr"].val = a}) = 1
        /\ \A i \in DOMAIN Reconciled :
            Reconciled[i]["addr"].val \in TableKeys(NewLoaded)

\* both lists are non-empty: one new landmark was found complete in the old
\* table, another one was not
C3_Witness ==
    /\ pc = "reconciled"
    /\ lm_complete # <<>>
    /\ lm_incomplete # <<>>
    /\ old_landmarks # <<>>

\* C4: every returned record has an entry for each required country, each
\* entry is the old record's or unknown, and the record is in the complete
\* list exactly when no entry is unknown.
C4_CompleteIffAllKnown ==
    pc = "reconciled" =>
        \A i \in DOMAIN Reconciled :
            LET lm == Reconciled[i]
            IN  /\ ccs \subseteq DOMAIN lm
                /\ \A iso \in ccs :
                    lm[iso] = PyNone \/ lm[iso] = DictGet(OldOf(lm), iso)
                /\ (i <= Len(lm_complete)) <=> (\A iso \in ccs : lm[iso] # PyNone)

\* a record with one country carried forward and one unknown has been put in
\* the incomplete list
C4_Witness ==
    /\ pc = "reconciled"
    /\ \E i \in DOMAIN lm_incomplete :
        /\ \E iso \in ccs : lm_incomplete[i][iso] = PyNone
        /\ \E iso \in ccs : lm_incomplete[i][iso] # PyNone

\* the landmarks a worker has returned: <<record handed to analyze_landmark,
\* record that came back>>
Analyzed ==
    {p \in Range(lm_incomplete) \X Range(lm_complete) :
        p[1]["addr"].val = p[2]["addr"].val}

\* the row of address a in the result file
FileRow(a) ==
    resultsFile.rows[CHOOSE i \in DOMAIN resultsFile.rows :
                        resultsFile.rows[i]["addr"].val = a]

\* C5: an entry a run leaves unresolved is written as an empty cell, and an
\* empty cell of the old table is unknown again in the next run: the entry is
\* None after reconciliation and the landmark is in the incomplete list.
C5_EmptyCellUnknownAgain ==
    /\ pc = "done" =>
        \A i \in DOMAIN lm_complete : \A iso \in ccs :
            lm_complete[i][iso] = PyNone =>
                FileRow(lm_complete[i]["addr"].val)[iso] = EmptyStr
    /\ pc = "reconciled" =>
        \A i \in DOMAIN Reconciled :
            LET lm == Reconciled[i]
            IN  \A iso \in ccs :
                    DictGet(OldOf(lm), iso) = EmptyStr =>
                        lm[iso] = PyNone /\ i > Len(lm_complete)

\* C6: analyze_landmark changes nothing but country entries that are None on
\* entry: the returned record has the same keys, and every other value is the
\* one handed in.
C6_OnlyUnknownFilled ==
    \A p \in Analyzed :
        /\ DOMAIN p[2] = DOMAIN p[1]
        /\ \A k \in DOMAIN p[1] :
            (k \notin ccs \/ p[1][k] # PyNone) => p[2][k] = p[1][k]

\* a landmark went through analyze_landmark with one country already holding
\* a distance and another one unknown, which was filled in
C6_Witness ==
    \E p \in Analyzed :
        /\ \E iso \in ccs : HoldsDistance(p[1], iso)
        /\ \E iso \in ccs : p[1][iso] = PyNone /\ p[2][iso] # PyNone

\* the landmark with every country entry unknown
AllUnknown(lm) == [k \in DOMAIN lm |-> IF k \in ccs THEN PyNone ELSE lm[k]]

\* C7: analyze_landmark applied to its own result returns that result, and on
\* a partly resolved record it keeps the resolved entries and gives the others
\* the value it gives them on a record with every entry unknown.
C7_Idempotent ==
    \A p \in Analyzed :
        /\ analyze_landmark(p[2], WORKER_DATA) = p[2]
        /\ \A iso \in ccs :
            p[2][iso] = IF p[1][iso] # PyNone THEN p[1][iso]
                        ELSE analyze_landmark(AllUnknown(p[1]), WORKER_DATA)[iso]

\* a partly resolved landmark has been returned by a worker, one of its
\* entries still unknown after a failed repair
C7_Witness ==
    \E p \in Analyzed :
        /\ \E iso \in ccs : p[1][iso] # PyNone
        /\ \E iso \in ccs : p[1][iso] = PyNone /\ p[2][iso] # PyNone
        /\ \E q \in Analyzed : \E iso \in ccs : q[2][iso] = PyNone

\* the projected shape of country iso seen from landmark lm
Projected(lm, iso) == sh_transform(lm["longitude"].val, CountryShape(iso))

\* the entries analyze_landmark computed: <<record handed in, record
\* returned, country>>
Computed ==
    {t \in Analyzed \X ccs :
        t[1][1][t[2]] = PyNone /\ t[1][2][t[2]] # PyNone}

\* C8: a stored value is an integer multiple of the resolution, no other
\* multiple is nearer to the planar distance, it is not positive for a
\* landmark strictly inside the country, and at 100 km with resolution 10 it
\* is a positive multiple of 10.
C8_RoundedToResolution ==
    \A t \in Computed :
        LET g == Projected(t[1][1], t[2])
            d == distance(g)
            v == t[1][2][t[2]]
            res == WORKER_DATA.resolution
        IN  /\ v.kind = "int"
            /\ Abs(v.val) % res = 0
            /\ 2 * Abs(Abs(v.val) - d) <= res
            /\ (g.lo < 0 /\ 0 < g.hi) => v.val <= 0
            /\ (d = 100000 /\ res = 10) => (v.val > 0 /\ v.val % 10 = 0)

\* one landmark strictly inside a country and 100 km from another one has
\* been analyzed at resolution 10, and a distance that is no multiple of the
\* resolution has been rounded up
C8_Witness ==
    /\ WORKER_DATA.resolution = 10
    /\ \E t \in Computed :
        /\ distance(Projected(t[1][1], t[2])) = 100000
        /\ t[1][2][t[2]] = PyInt(100000)
    /\ \E t \in Computed :
        /\ Projected(t[1][1], t[2]).lo < 0
        /\ Projected(t[1][1], t[2]).hi > 0
    /\ \E t \in Computed :
        t[1][2][t[2]].val > distance(Projected(t[1][1], t[2]))

\* distance from the origin to the border of a shape that contains it
BorderDistance(g) == IF -g.lo < g.hi THEN -g.lo ELSE g.hi

\* C9: inside the country the stored value is minus the rounded distance to
\* the border; outside it is positive.
C9_SignTellsInside ==
    \A t \in Computed :
        LET g == Projected(t[1][1], t[2])
            v == t[1][2][t[2]]
            res == WORKER_DATA.resolution
        IN  IF intersects(g)
            THEN v.val = -(round(BorderDistance(g), res) * res)
            ELSE v.val > 0

\* the (landmark, country) pairs whose repair fails
Unrepaired(lm, iso) ==
    Validity(fault, lm["longitude"].val, iso) \in {"invalid", "raises"}

\* C10: a failed repair leaves that one entry unknown; every other unknown
\* entry of every landmark is computed, every landmark is returned, and
\* rewrite_results gets and writes one record per new landmark.
C10_FaultContained ==
    /\ \A p \in Analyzed : \A iso \in ccs :
        p[1][iso] = PyNone =>
            IF Unrepaired(p[1], iso) THEN p[2][iso] = PyNone
            ELSE p[2][iso].kind = "int"
    /\ pc \in {"rewrite", "done"} =>
        /\ Len(lm_complete) = Len(NewLoaded)
        /\ TableKeys(lm_complete) = TableKeys(NewLoaded)
    /\ pc = "done" =>
        /\ Len(resultsFile.rows) = Len(NewLoaded)
        /\ \A p \in Analyzed : \A iso \in ccs :
            FileRow(p[2]["addr"].val)[iso] = CsvField(p[2][iso])

\* a run is done in which one repair failed: the landmark has that entry
\* unknown and another one computed, and a second landmark was analyzed too
C10_Witness ==
    /\ pc = "done"
    /\ \E p \in Analyzed :
        /\ \E iso \in ccs : p[1][iso] = PyNone /\ Unrepaired(p[1], iso)
        /\ \E iso \in ccs : p[1][iso] = PyNone /\ p[2][iso].kind = "int"
        /\ \E q \in Analyzed : q # p

\* C11: whatever the number of workers and the order of completion, every
\* incomplete landmark comes back from analyze_landmark exactly once, and the
\* list handed to rewrite_results holds exactly one record per address of the
\* new landmark set.
C11_EveryLandmarkOnce ==
    /\ \A i \in DOMAIN lm_incomplete :
        Cardinality({j \in DOMAIN lm_complete :
            lm_complete[j]["addr"].val = lm_incomplete[i]["addr"].val}) <= 1
    /\ pc = "rewrite" =>
        /\ \A i \in DOMAIN lm_incomplete :
            Cardinality({j \in DOMAIN lm_complete :
                lm_complete[j] = analyze_landmark(lm_incomplete[i], WORKER_DATA)}) = 1
        /\ \A a \in TableKeys(NewLoaded) :
            Cardinality({j \in DOMAIN lm_complete :
                lm_complete[j]["addr"].val = a}) = 1
        /\ Len(lm_complete) = Len(NewLoaded)

\* two workers, two incomplete landmarks, and the second one came back first
C11_Witness ==
    /\ pc = "rewrite"
    /\ parallel = 2
    /\ Len(lm_incomplete) = 2
    /\ lm_complete[1]["addr"].val = lm_incomplete[2]["addr"].val

\* ------------------------------------------------------- rewrite_results alone
\* rewrite_results called on result lists of any shape: records with the
\* three required keys, any of the metadata keys and any of the distance keys
MaxRecords == 2

RecordAddrs == {1, 2, 3}

MetaChoices == {{"name"}, {"city"}, {"city", "name"}}

DistChoices == {{"AAA"}, {"AAA", "BBB"}}

ResultRecord(a, keys) ==
    [k \in keys |->
        IF k = "addr" THEN PyIp(a)
        ELSE IF k = "longitude" THEN PyFloat(a)
        ELSE IF k = "latitude" THEN PyFloat(0)
        ELSE IF k = "AAA" THEN PyInt(7 * a)
        ELSE IF k = "BBB" THEN PyNone
        ELSE PyStr("text", a)]

ResultRecords ==
    {ResultRecord(a, {"addr", "longitude", "latitude"} \cup m \cup d) :
        a \in RecordAddrs, m \in MetaChoices, d \in DistChoices}

WriterInputs ==
    {r \in UNION {[1..n -> ResultRecords] : n \in 0..MaxRecords} :
        \A i, j \in DOMAIN r : i # j => r[i]["addr"].val # r[j]["addr"].val}

\* a results file of an earlier run
PriorResults ==
    [exists |-> TRUE,
     columns |-> <<"addr", "longitude", "latitude">>,
     rows |-> <<[k \in {"addr", "longitude", "latitude"} |->
                    IF k = "addr" THEN PyStr("ip", 1) ELSE PyStr("float", 0)]>>]

\* main has reached line 880 with some result list
InitWriter ==
    /\ run = MaxRuns
    /\ pc = "rewrite"
    /\ resolution = 10
    /\ parallel = 1
    /\ ext \in Exts
    /\ fault = [mode |-> "valid", lon |-> 0, iso |-> "AAA"]
    /\ ccs \in CcsChoices
    /\ landmarksFile = NoFile
    /\ resultsFile \in {NoFile, PriorResults}
    /\ resultsBefore = resultsFile
    /\ old_landmarks = <<>>
    /\ lm_complete \in WriterInputs
    /\ new_landmarks = lm_complete
    /\ lm_incomplete = <<>>
    /\ WORKER_DATA = NoWorkerData
    /\ dispatched = 0
    /\ inflight = {}
    /\ crashed = ""
    /\ tmp = NoFile
    /\ xlink = NoFile
    /\ synced = FALSE
    /\ exitMsg = NoMsg
    /\ cfgIn = <<>>
    /\ cfgOut = <<>>

NextWriter ==
    \/ RewriteResults
    \/ CreateTemp
    \/ WriteHeader
    \/ WriteRow
    \/ FlushSync
    \/ Link
    \/ Replace
    \/ CloseTemp
    \/ IOError
    \/ Interrupt

SpecWriter == InitWriter /\ [][NextWriter]_vars

\* ------------------------------------------------------- the loaders alone
\* every variable of a run, at rest while a loader is looked at alone
NoRun ==
    /\ run = MaxRuns
    /\ resolution = 10
    /\ parallel = 1
    /\ ext = "gz"
    /\ fault = [mode |-> "valid", lon |-> 0, iso |-> "AAA"]
    /\ ccs = {}
    /\ landmarksFile = NoFile
    /\ resultsFile = NoFile
    /\ resultsBefore = NoFile
    /\ old_landmarks = <<>>
    /\ new_landmarks = <<>>
    /\ lm_complete = <<>>
    /\ lm_incomplete = <<>>
    /\ WORKER_DATA = NoWorkerData
    /\ dispatched = 0
    /\ inflight = {}
    /\ crashed = ""
    /\ tmp = NoFile
    /\ xlink = NoFile
    /\ synced = FALSE
    /\ exitMsg = NoMsg

runVars == <<run, pc, args, ccs, landmarksFile, resultsFile, old_landmarks,
             new_landmarks, lm_complete, lm_incomplete, WORKER_DATA, dispatched,
             inflight, crashed, tmpVars, resultsBefore, exitMsg>>

InitMaps ==
    /\ NoRun
    /\ pc = "load_maps"
    /\ cfgIn \in {<<x>> : x \in MapInputs}
    /\ cfgOut = <<>>

\* line 845: load_maps(args.map, rules, ccs)
CallLoadMaps ==
    /\ pc = "load_maps"
    /\ cfgOut = <<>>
    /\ cfgOut' = <<load_maps_from(cfgIn[1].rules, cfgIn[1].ccs,
                                  cfgIn[1].features, cfgIn[1].union)>>
    /\ UNCHANGED <<runVars, cfgIn>>

NextMaps == CallLoadMaps

SpecMaps == InitMaps /\ [][NextMaps]_vars

InitCountryCodes ==
    /\ NoRun
    /\ pc = "load_country_codes"
    /\ cfgIn \in {<<x>> : x \in CountryFiles}
    /\ cfgOut = <<>>

\* line 822: load_country_codes(args.countrycodes)
CallLoadCountryCodes ==
    /\ pc = "load_country_codes"
    /\ cfgOut = <<>>
    /\ cfgOut' = <<load_country_codes(cfgIn[1])>>
    /\ UNCHANGED <<runVars, cfgIn>>

NextCountryCodes == CallLoadCountryCodes

SpecCountryCodes == InitCountryCodes /\ [][NextCountryCodes]_vars

\* ------------------------------------------------------- atomic_rewrite
\* where the run is, or was when it was killed
place == IF pc = "killed" THEN crashed ELSE pc

\* C12: until os.replace has run, whether the run is still going, has failed
\* or was killed, the destination is what it was when the run started; the
\* destination only ever changes to the complete, flushed and fsync'ed
\* content; and what is linked and renamed is that complete content.
C12_DestinationIntact ==
    /\ place \notin {"replaced", "done"} => resultsFile = resultsBefore
    /\ resultsFile # resultsBefore =>
        /\ synced
        /\ resultsFile = WrittenFile(lm_complete, ccs)
    /\ pc \in {"synced", "linked"} =>
        /\ synced
        /\ tmp = WrittenFile(lm_complete, ccs)
    /\ pc = "linked" => xlink = tmp

\* a run killed while it rewrites an existing file, header written and rows
\* still missing
C12_Witness ==
    /\ pc = "killed"
    /\ crashed = "writing"
    /\ resultsBefore.exists
    /\ Len(resultsBefore.rows) = 2
    /\ tmp.exists
    /\ tmp.columns # <<>>
    /\ Len(tmp.rows) < Len(lm_complete)

\* C13: after an I/O error at any step of atomic_rewrite the destination has
\* its previous content and neither the temporary file nor the hard link
\* "<tmp>." is left in the directory.
C13_NothingLeftBehind ==
    (pc = "crashed" /\ crashed = "OSError") =>
        /\ resultsFile = resultsBefore
        /\ ~tmp.exists
        /\ ~xlink.exists

\* C14: the writer never fails on the destination's extension, and a finished
\* run leaves a file load_landmarks reads back, one record per landmark.
C14_EveryExtensionWritten ==
    /\ ~(pc = "crashed" /\ crashed = "AssertionError: isinstance(name, str)")
    /\ pc = "done" =>
        /\ resultsFile.exists
        /\ TableKeys(load_landmarks(resultsFile)) = TableKeys(lm_complete)

\* ------------------------------------------------------- rewrite_results
\* the records whose key set is not the first record's
Offending == {i \in DOMAIN lm_complete : DOMAIN lm_complete[i] # DOMAIN lm_complete[1]}

\* C15: a result list with a record whose key set differs from the first
\* record's gets no further than the check: rewrite_results ends with
\* SystemExit, the message names the address of such a record with its extra
\* and its missing keys, and no file has been created or changed.
C15_KeyMismatchRejected ==
    /\ Offending # {} =>
        \/ place = "rewrite"
        \/ pc = "crashed" /\ crashed = "SystemExit"
    /\ (pc = "crashed" /\ crashed = "SystemExit") =>
        /\ \E i \in Offending :
            /\ exitMsg.addr = lm_complete[i]["addr"].val
            /\ exitMsg.extra = DOMAIN lm_complete[i] \ DOMAIN lm_complete[1]
            /\ exitMsg.missing = DOMAIN lm_complete[1] \ DOMAIN lm_complete[i]
        /\ ~tmp.exists
        /\ ~xlink.exists
        /\ resultsFile = resultsBefore

\* a record with both extra and missing keys, rejected with a prior file there
C15_Witness ==
    /\ pc = "crashed"
    /\ crashed = "SystemExit"
    /\ exitMsg.extra # {}
    /\ exitMsg.missing # {}
    /\ resultsBefore.exists

\* the group a column belongs to, in the order the groups are emitted
ColumnGroup(k) ==
    IF k = "addr" THEN 1
    ELSE IF k = "longitude" THEN 3
    ELSE IF k = "latitude" THEN 4
    ELSE IF k \in ccs THEN 5
    ELSE 2

AlphaPos(k) == CHOOSE i \in DOMAIN ALPHABETICAL : ALPHABETICAL[i] = k

ColumnsInOrder(cs) ==
    /\ Range(cs) = DOMAIN new_landmarks[1]
    /\ \A i, j \in DOMAIN cs :
        i < j =>
            \/ ColumnGroup(cs[i]) < ColumnGroup(cs[j])
            \/ /\ ColumnGroup(cs[i]) = ColumnGroup(cs[j])
               /\ AlphaPos(cs[i]) < AlphaPos(cs[j])

RowsAscending(rows) ==
    \A i, j \in DOMAIN rows : i < j => rows[i]["addr"].val < rows[j]["addr"].val

\* C16: the header written is addr, the other non-country keys
\* alphabetically, longitude, latitude, the country codes alphabetically,
\* each key of the records once; the rows written are in ascending address
\* order, and the finished file has one row per record.
C16_FixedOrder ==
    /\ (tmp.exists /\ tmp.columns # <<>>) =>
        /\ ColumnsInOrder(tmp.columns)
        /\ RowsAscending(tmp.rows)
    /\ pc = "done" =>
        /\ ColumnsInOrder(resultsFile.columns)
        /\ RowsAscending(resultsFile.rows)
        /\ \A i \in DOMAIN new_landmarks :
            \E j \in DOMAIN resultsFile.rows :
                resultsFile.rows[j] =
                    [k \in DOMAIN new_landmarks[i] |-> CsvField(new_landmarks[i][k])]
        /\ Len(resultsFile.rows) = Len(new_landmarks)

\* two records handed over in descending address order, with two metadata
\* keys and two country columns
C16_Witness ==
    /\ pc = "done"
    /\ ccs = {"AAA", "BBB"}
    /\ Len(new_landmarks) = 2
    /\ new_landmarks[1]["addr"].val > new_landmarks[2]["addr"].val
    /\ {"city", "name", "AAA", "BBB"} \subseteq DOMAIN new_landmarks[1]

\* C17: the file a finished rewrite_results leaves reads back with the same
\* addresses, each distance as the string of the number written, and each
\* unknown entry as None.
C17_RoundTrip ==
    pc = "done" =>
        LET back == load_landmarks(resultsFile)
        IN  /\ TableKeys(back) = TableKeys(lm_complete)
            /\ \A i \in DOMAIN lm_complete :
                \A iso \in ccs \cap DOMAIN lm_complete[i] :
                    LET v == lm_complete[i][iso]
                        b == TableGet(back, lm_complete[i]["addr"].val)[iso]
                    IN  IF v = PyNone THEN b = PyNone
                        ELSE b = PyStr(v.kind, v.val)

\* ------------------------------------------------------- load_maps
MapsRan == pc = "load_maps" /\ cfgOut # <<>>

\* C18: load_maps returns a map with exactly the country table's codes as
\* keys, or it ends with SystemExit.
C18_ExactMapOrSystemExit ==
    MapsRan =>
        \/ cfgOut[1].outcome = "SystemExit"
        \/ /\ cfgOut[1].outcome = "returned"
           /\ DOMAIN cfgOut[1].maps = cfgIn[1].ccs

\* the configuration problems of one call
UnknownCodes == {iso \in RuleIsos(cfgIn[1].rules) : iso \notin cfgIn[1].ccs}

DuplicateUnits ==
    {cfgIn[1].features[j].gu : j \in
        {j \in DOMAIN cfgIn[1].features :
            \E i \in 1..(j - 1) : cfgIn[1].features[i].gu = cfgIn[1].features[j].gu}}

Uncovered ==
    {iso \in cfgIn[1].ccs :
        /\ iso \notin RuleIsos(cfgIn[1].rules)
        /\ \A j \in DOMAIN cfgIn[1].features : cfgIn[1].features[j].sov # iso}

MissingUnits ==
    {gu \in UNION {Range(cfgIn[1].rules[i].gus) : i \in DOMAIN cfgIn[1].rules} :
        \A j \in DOMAIN cfgIn[1].features : cfgIn[1].features[j].gu # gu}

Reported(kind, what) == Err(kind, what) \in Range(cfgOut[1].errors)

\* C19: with any unknown rule code, duplicate unit, country without a rule or
\* rule entry for a unit the map lacks, load_maps ends with SystemExit and has
\* reported each of them.
C19_ErrorsAggregated ==
    (MapsRan /\ UnknownCodes \cup DuplicateUnits \cup Uncovered \cup MissingUnits # {}) =>
        /\ cfgOut[1].outcome = "SystemExit"
        /\ \A iso \in UnknownCodes : Reported("unknown ISO_A3 code", iso)
        /\ \A gu \in DuplicateUnits : Reported("duplicate GU_A3 code", gu)
        /\ \A iso \in Uncovered : Reported("no features for ISO_A3 code", iso)
        /\ \A gu \in MissingUnits : Reported("GU not found in map", gu)

\* ------------------------------------------------------- load_country_codes
CodesRan == pc = "load_country_codes" /\ cfgOut # <<>>

\* two code cells are the same code: equal once trimmed and upper-cased
SameCode(s, t) == s.text = t.text

\* two name cells are the same name: equal once trimmed
SameName(s, t) == s.text = t.text /\ s.lower = t.lower

\* the rows that repeat a field of an earlier row
RepeatA3 ==
    {j \in DOMAIN cfgIn[1].rows : \E i \in 1..(j - 1) :
        SameCode(cfgIn[1].rows[i].ISO_A3, cfgIn[1].rows[j].ISO_A3)}

RepeatA2 ==
    {j \in DOMAIN cfgIn[1].rows : \E i \in 1..(j - 1) :
        SameCode(cfgIn[1].rows[i].ISO_A2, cfgIn[1].rows[j].ISO_A2)}

RepeatName ==
    {j \in DOMAIN cfgIn[1].rows : \E i \in 1..(j - 1) :
        SameName(cfgIn[1].rows[i].NAME, cfgIn[1].rows[j].NAME)}

ReportsOf(kind) ==
    Cardinality({i \in DOMAIN cfgOut[1].errors : cfgOut[1].errors[i].kind = kind})

ExactHeader ==
    \E f \in [1..3 -> {"ISO_A2", "ISO_A3", "NAME"}] :
        /\ f = cfgIn[1].fieldnames
        /\ \A i, j \in 1..3 : i # j => f[i] # f[j]

\* C20: a header other than the three fields, in any order, is rejected; a
\* table with a repeated ISO_A3, ISO_A2 or NAME is rejected with one report
\* per repeating row and field; a returned table has one entry per row, with
\* the three fields pairwise different.
C20_CountryTableChecked ==
    CodesRan =>
        /\ ~ExactHeader => cfgOut[1].outcome = "SystemExit: wrong set of fields"
        /\ (ExactHeader /\ RepeatA3 \cup RepeatA2 \cup RepeatName # {}) =>
            /\ cfgOut[1].outcome = "SystemExit"
            /\ ReportsOf("duplicate ISO_A3 code") = Cardinality(RepeatA3)
            /\ ReportsOf("duplicate ISO_A2 code") = Cardinality(RepeatA2)
            /\ ReportsOf("duplicate name") = Cardinality(RepeatName)
        /\ cfgOut[1].outcome = "returned" =>
            /\ ExactHeader
            /\ Cardinality(DOMAIN cfgOut[1].rv) = Len(cfgIn[1].rows)
            /\ \A j \in DOMAIN cfgIn[1].rows :
                \E c \in DOMAIN cfgOut[1].rv :
                    /\ cfgOut[1].rv[c].ISO_A3 = c
                    /\ c = Cell(cfgIn[1].rows[j].ISO_A3.text, FALSE, FALSE)
                    /\ SameCode(cfgOut[1].rv[c].ISO_A2, cfgIn[1].rows[j].ISO_A2)
                    /\ SameName(cfgOut[1].rv[c].NAME, cfgIn[1].rows[j].NAME)
            /\ \A c, e \in DOMAIN cfgOut[1].rv :
                c # e =>
                    /\ ~SameCode(cfgOut[1].rv[c].ISO_A3, cfgOut[1].rv[e].ISO_A3)
                    /\ ~SameCode(cfgOut[1].rv[c].ISO_A2, cfgOut[1].rv[e].ISO_A2)
                    /\ ~SameName(cfgOut[1].rv[c].NAME, cfgOut[1].rv[e].NAME)

\* a table whose second row repeats the first row's code, written in lower
\* case with blanks around it, and repeats one more field
C20_Witness ==
    /\ CodesRan
    /\ cfgOut[1].outcome = "SystemExit"
    /\ Len(cfgIn[1].fieldnames) = 3
    /\ cfgIn[1].fieldnames[1] = "NAME"
    /\ Len(cfgIn[1].rows) = 2
    /\ cfgIn[1].rows[2].ISO_A3 = Cell("AAA", TRUE, TRUE)
    /\ RepeatA3 = {2}
    /\ Len(cfgOut[1].errors) = 2

\* ------------------------------------------------------- main, first run
\* the run started without a result file
NoPrior == pc # "idle" /\ ~resultsBefore.exists

\* C21: without a prior result file every new landmark is in the incomplete
\* list with every country entry unknown, all of them are dispatched, and
\* the run creates the result file with exactly the new landmarks.
C21_FirstRun ==
    NoPrior =>
        /\ pc = "reconciled" =>
            /\ lm_complete = <<>>
            /\ Len(lm_incomplete) = Len(NewLoaded)
            /\ \A i \in DOMAIN lm_incomplete : \A iso \in ccs :
                lm_incomplete[i][iso] = PyNone
        /\ pc \in {"rewrite", "atomic_rewrite", "done"} =>
            dispatched = Len(NewLoaded)
        /\ pc = "done" =>
            /\ resultsFile.exists
            /\ TableKeys(load_landmarks(resultsFile)) = TableKeys(NewLoaded)
            /\ Len(resultsFile.rows) = Len(NewLoaded)
        /\ pc # "returned"
        /\ pc = "crashed" => crashed = "OSError"

\* ------------------------------------------------------- load_maps, merging
\* the configuration passes the validation at 401-480
PassesValidation ==
    load_maps_from(cfgIn[1].rules, cfgIn[1].ccs, cfgIn[1].features, "valid").outcome
        = "returned"

\* C22: an invalid union that buffer(0) repairs becomes the country's
\* geometry and load_maps returns; one that stays invalid is reported and
\* load_maps ends with SystemExit.
C22_OneRepairAttempt ==
    (MapsRan /\ PassesValidation) =>
        /\ cfgIn[1].union = "repairable" =>
            /\ cfgOut[1].outcome = "returned"
            /\ "AAA" \in DOMAIN cfgOut[1].maps
        /\ cfgIn[1].union = "invalid" =>
            /\ cfgOut[1].outcome = "SystemExit"
            /\ Reported("map is invalid after merge", "AAA")

\* ------------------------------------------------------- load_maps, implicit rules
\* the rules load_maps leaves for the codes of iso
RulesFor(iso) == {i \in DOMAIN cfgOut[1].rules : cfgOut[1].rules[i].iso = iso}

\* the rules added by lines 440-442
Implicit == (Len(cfgIn[1].rules) + 1)..Len(cfgOut[1].rules)

NoExplicitRule == cfgIn[1].ccs \ RuleIsos(cfgIn[1].rules)

\* feature j has the GU_A3 code of an earlier feature
Repeated(j) ==
    \E i \in 1..(j - 1) : cfgIn[1].features[i].gu = cfgIn[1].features[j].gu

\* C23: the explicit rules are left as they are; every feature whose
\* sovereign is a country of the table without an explicit rule, and whose
\* unit code no earlier feature has, is a unit of the implicit rule of that
\* sovereign, and the implicit rules hold nothing else; no code has two rules; a country left without any rule is reported
\* and load_maps does not return, so in a load that returns every country
\* has exactly one rule.
C23_ImplicitRules ==
    MapsRan =>
        /\ \A i \in DOMAIN cfgIn[1].rules : cfgOut[1].rules[i] = cfgIn[1].rules[i]
        /\ \A j \in DOMAIN cfgIn[1].features :
            LET f == cfgIn[1].features[j]
            IN  (f.sov \in NoExplicitRule /\ ~Repeated(j)) =>
                    \E i \in Implicit :
                        /\ cfgOut[1].rules[i].iso = f.sov
                        /\ f.gu \in Range(cfgOut[1].rules[i].gus)
        /\ \A i \in Implicit :
            /\ cfgOut[1].rules[i].iso \in NoExplicitRule
            /\ \A gu \in Range(cfgOut[1].rules[i].gus) :
                \E j \in DOMAIN cfgIn[1].features :
                    /\ ~Repeated(j)
                    /\ cfgIn[1].features[j].gu = gu
                    /\ cfgIn[1].features[j].sov = cfgOut[1].rules[i].iso
        /\ \A iso \in RuleIsos(cfgOut[1].rules) : Cardinality(RulesFor(iso)) = 1
        /\ \A iso \in cfgIn[1].ccs :
            RulesFor(iso) = {} =>
                /\ Reported("no features for ISO_A3 code", iso)
                /\ cfgOut[1].outcome # "returned"
        /\ cfgOut[1].outcome = "returned" =>
            \A iso \in cfgIn[1].ccs : Cardinality(RulesFor(iso)) = 1

\* an explicit rule for AAA, whose units A1 and A2 get no implicit rule, and
\* an implicit rule for BBB
C23_Witness ==
    /\ MapsRan
    /\ cfgOut[1].outcome = "returned"
    /\ cfgIn[1].ccs = {"AAA", "BBB"}
    /\ RuleIsos(cfgIn[1].rules) = {"AAA"}
    /\ Len(cfgIn[1].features) = 2
    /\ Implicit # {}

\* C23 as stated: after rule synthesis every country has exactly one rule.
C23_EveryCountryCovered ==
    MapsRan => \A iso \in cfgIn[1].ccs : Cardinality(RulesFor(iso)) = 1

\* ------------------------------------------------------- main, order of the phases
WriterPlaces == {"rewrite", "atomic_rewrite", "writing", "synced", "linked",
                 "replaced", "done"}

\* C24: rewrite_results is entered only when every dispatched landmark has
\* come back from the pool; while the maps are loaded and the distances are
\* computed, and when the run is killed there, the result file is what it was
\* before the run and no temporary file exists.
C24_WriterAfterPool ==
    /\ place \in WriterPlaces =>
        /\ inflight = {}
        /\ dispatched = Len(lm_incomplete)
        /\ \A i \in DOMAIN lm_incomplete :
            \E j \in DOMAIN lm_complete :
                lm_complete[j]["addr"].val = lm_incomplete[i]["addr"].val
    /\ place \in {"reconciled", "pool"} =>
        /\ resultsFile = resultsBefore
        /\ ~tmp.exists
        /\ ~xlink.exists

\* a run over an existing result file, killed with one landmark back from
\* the pool and one still being computed
C24_Witness ==
    /\ pc = "killed"
    /\ crashed = "pool"
    /\ resultsBefore.exists
    /\ Len(lm_incomplete) = 2
    /\ Cardinality(inflight) = 1
    /\ dispatched = 2

\* ------------------------------------------------------- the shared snapshot
\* WORKER_DATA as line 849 builds it
Snapshot == [maps |-> load_maps(ccs), resolution |-> resolution, fault |-> fault]

\* the landmarks whose worker has returned
Returned == {i \in 1..dispatched : i \notin inflight}

\* C25: while the pool works the snapshot stays what main built, and every
\* result that has come back, in whatever order, is the result of
\* analyze_landmark run alone on that landmark against that snapshot.
C25_SnapshotReadOnly ==
    pc \in {"pool", "rewrite"} /\ lm_incomplete # <<>> =>
        /\ WORKER_DATA = Snapshot
        /\ \A i \in Returned :
            \E j \in DOMAIN lm_complete :
                lm_complete[j] = analyze_landmark(lm_incomplete[i], Snapshot)

\* two landmarks at different longitudes being computed at the same time
C25_Witness ==
    /\ pc = "pool"
    /\ Cardinality(inflight) = 2
    /\ lm_incomplete[1]["longitude"].val # lm_incomplete[2]["longitude"].val
    /\ \E c \in ccs : lm_incomplete[2][c] = PyNone

\* ------------------------------------------------------- determinism
\* the result file as the inputs of the run alone determine it: the file
\* before the run, the landmark file, the country table, the resolution and
\* the geometry
ExpectedFile ==
    LET old == IF resultsBefore.exists THEN load_landmarks(resultsBefore) ELSE <<>>
        r == reconcile_landmarks(old, load_landmarks(landmarksFile), ccs)
        all == r.complete \o r.incomplete
    IN  WrittenFile([i \in DOMAIN all |-> analyze_landmark(all[i], Snapshot)], ccs)

\* C26: whatever the number of workers and the order in which they finish,
\* the file a run writes is the one its inputs determine.
C26_FileDependsOnInputsOnly ==
    /\ pc \in {"synced", "linked", "replaced"} => tmp = ExpectedFile
    /\ pc \in {"replaced", "done"} => resultsFile = ExpectedFile

\* two workers, two landmarks listed in descending address order, both
\* computed in this run
C26_Witness ==
    /\ pc = "done"
    /\ parallel = 2
    /\ Len(lm_incomplete) = 2
    /\ lm_incomplete[1]["addr"].val > lm_incomplete[2]["addr"].val

\* ------------------------------------------------------- main, early return
\* reconciliation left nothing to compute and the address sets agree
NothingToDo ==
    /\ lm_incomplete = <<>>
    /\ TableKeys(old_landmarks) = TableKeys(NewLoaded)

\* the run leaves its current position for rewrite_results only from the
\* end of the pool or from the "no new analysis" branch, and from there it
\* goes on into atomic_rewrite or ends
OnceThroughWriter ==
    /\ (pc' = "rewrite" /\ pc # "rewrite") =>
        (pc \in {"reconciled", "pool"} /\ run' = run)
    /\ (pc = "rewrite" /\ pc' # "rewrite") =>
        (pc' \in {"atomic_rewrite", "crashed", "killed"} /\ run' = run)
    /\ (pc' = "atomic_rewrite" /\ pc # "atomic_rewrite") => pc = "rewrite"
    /\ (pc' = "done" /\ pc # "done") => (pc = "replaced" /\ run' = run)
    /\ (pc' = "returned" /\ pc # "returned") => (pc = "reconciled" /\ run' = run)

\* C27: with nothing to compute and equal address sets main returns with no
\* map loaded, no writer step taken and the result file as it was; a run
\* that ends successfully otherwise has gone through rewrite_results, which
\* a run enters at most once.
C27_ReturnOrRewriteOnce ==
    /\ [](/\ pc = "returned" =>
            /\ NothingToDo
            /\ WORKER_DATA = NoWorkerData
            /\ dispatched = 0
            /\ resultsFile = resultsBefore
            /\ ~tmp.exists /\ ~xlink.exists /\ ~synced
          /\ (NothingToDo /\ pc # "idle") => place \in {"reconciled", "returned"}
          /\ pc = "done" => (~NothingToDo /\ synced))
    /\ [][OnceThroughWriter]_vars

\* a second run over the file the first run wrote, same landmarks
C27_Witness ==
    /\ pc = "returned"
    /\ run = 2
    /\ Len(old_landmarks) = 2
    /\ resultsFile.exists

\* ------------------------------------------------------- what the file holds
\* the row of the landmark file for address a
LandmarkRowOf(a) ==
    landmarksFile.rows[CHOOSE i \in DOMAIN landmarksFile.rows :
                            landmarksFile.rows[i]["addr"].val = a]

\* C28: the file a run has written holds one row per new landmark and no
\* other address; its columns are those of the landmark file and the codes
\* of the country table, nothing else of the prior file; the landmark
\* columns hold what the landmark file holds.
C28_OnlyNewLandmarks ==
    pc \in {"replaced", "done"} =>
        /\ TableKeys(load_landmarks(resultsFile)) = TableKeys(NewLoaded)
        /\ Len(resultsFile.rows) = Len(NewLoaded)
        /\ Range(resultsFile.columns) = Range(landmarksFile.columns) \cup ccs
        /\ \A a \in TableKeys(NewLoaded) : \A k \in Range(landmarksFile.columns) :
            FileRow(a)[k].val = LandmarkRowOf(a)[k].val

\* the prior file has two addresses and the column BBB, the new landmark
\* list one address and the country table AAA only
C28_Witness ==
    /\ pc = "done"
    /\ Len(resultsBefore.rows) = 2
    /\ "BBB" \in Range(resultsBefore.columns)
    /\ Len(NewLoaded) = 1
    /\ ccs = {"AAA"}
    /\ resultsFile # resultsBefore

\* ------------------------------------------------------- results[0]
\* C29: rewrite_results is only ever called with a non-empty list, so
\* results[0] at line 606 never fails.
C29_ResultsNonEmpty ==
    /\ pc = "rewrite" => lm_complete # <<>>
    /\ ~(pc = "crashed" /\ crashed = "IndexError")

\* ------------------------------------------------------- load_maps, units used twice
\* the references to units, rule by rule, after rule synthesis
References == FlatUnits(cfgOut[1].rules, 1)

\* the units of the map file that two rule entries name
DoublyReferenced ==
    {gu \in {cfgIn[1].features[j].gu : j \in DOMAIN cfgIn[1].features} :
        Cardinality({i \in DOMAIN References : References[i].gu = gu}) >= 2}

\* C30: in a returned map no unit is part of two countries' geometries, and
\* a unit of the map that two rule entries name is reported and load_maps
\* does not return.
C30_UnitUsedOnce ==
    MapsRan =>
        /\ cfgOut[1].outcome = "returned" =>
            \A c, e \in DOMAIN cfgOut[1].maps :
                c # e => cfgOut[1].maps[c] \cap cfgOut[1].maps[e] = {}
        /\ DoublyReferenced # {} =>
            /\ cfgOut[1].outcome # "returned"
            /\ \A gu \in DoublyReferenced : Reported("GU not found in map", gu)

====
